---- MODULE Spec2Model ----
(***************************************************************************)
(* minimio: a minimal I/O readiness library over epoll (linux.rs), kqueue  *)
(* (macos.rs) and IOCP (windows.rs).                                       *)
(*                                                                         *)
(* The model has one reactor thread that calls Poll::poll, NThreads        *)
(* application threads that call Registrator::register and                 *)
(* Registrator::close_loop, and the kernel event queue of the platform     *)
(* chosen in Init.  Variables whose comment says "ghost" are history that  *)
(* the properties read; the program does not hold them.                    *)
(***************************************************************************)
EXTENDS Integers, Sequences, FiniteSets, TLC

(* ---- bounds of the model ---- *)
NStreams == 1
MaxToken == 1
MaxCap == 2
MaxNeg == 3
MaxAlloc == 6
MaxReads == 3
MaxMillis == 120
MaxErrors == 3
NThreads == 2

(* ---- constants of the program ---- *)
\* linux.rs:80  epoll_wait(self.fd, events, 1024, timeout)
EPOLL_MAXEVENTS == 1024
\* windows.rs:50  let mut buffer = vec![0_u8; 1024]
BUFFER_LEN == 1024

Streams == 1..NStreams
\* The TcpStreams the application has connected: the streams the
\* specifications below drive, and one more that only SharedTokenSpec uses.
AllStreams == 1..(NStreams + 1)
Threads == 1..NThreads
Tokens == 0..MaxToken
Platforms == {"epoll", "kqueue", "iocp"}

\* A value that is no token of the application: what a read through a
\* dangling pointer may return besides any token.
Garbage == MaxToken + 1

\* The source of the synthetic wake event in a batch of ready sources.
WakeSrc == 0

(* ---- Interests (bitset READABLE | WRITABLE) ---- *)
READABLE == "READABLE"
WRITABLE == "WRITABLE"
InterestSets == SUBSET {READABLE, WRITABLE}
is_readable(i) == READABLE \in i
is_writable(i) == WRITABLE \in i

(* ---- Option<i32> timeouts ---- *)
None == [some |-> FALSE, ms |-> 0]
Some(n) == [some |-> TRUE, ms |-> n]
TimeoutArgs == {None, Some(-1), Some(0)}

\* A timeout that is handed to select as the caller gave it.
ClampTimeout_pass(t) == t
\* Poll::poll step 1: a negative timeout is clamped to 0, None passes through.
ClampTimeout(t) == IF t.some /\ t.ms < 0 THEN Some(0) ELSE t

(* ---- event flags the registrations are made with ---- *)
\* A registration made without EPOLLONESHOT.
RegisterEpollFlags_level == {"EPOLLIN"}
\* linux.rs:32   Event::new(EPOLLIN | EPOLLONESHOT, token)
RegisterEpollFlags == {"EPOLLIN", "EPOLLONESHOT"}
\* linux.rs:56   Event::new(EPOLLIN, 0)
WakeEpollFlags == {"EPOLLIN"}
\* macos.rs:209  EV_ADD | EV_ENABLE | EV_ONESHOT
new_read_event_flags == {"EV_ADD", "EV_ENABLE", "EV_ONESHOT"}
\* macos.rs:220  EV_ADD | EV_ENABLE | EV_CLEAR
new_wakeup_event_flags == {"EV_ADD", "EV_ENABLE", "EV_CLEAR"}
\* udata / epoll_data of the wake event (linux.rs:56, macos.rs:224)
WakeToken == 0
\* windows.rs:348
WSA_IO_PENDING == 997

VARIABLES
    platform,      \* the target the crate was built for
    timespec,      \* kqueue: the timeout argument the kevent wrapper made of
                   \* its last timeout_ms (ghost: arg is that timeout_ms)
    evl,           \* the legacy EventLoop of lib.rs: has_error, errors and
                   \* its mutex, the background thread, a check_errors call
    is_poll_dead,  \* Arc<AtomicBool> shared by Poll and every Registrator
    regs,          \* epoll interest list / kqueue knotes, per stream
    wake,          \* the wake source: "none", "ready", "idle"
    assoc,         \* IOCP: the socket is associated with the port
    operations,    \* IOCP: TcpStream.operations, per stream
    port,          \* IOCP: the completion port's packet queue
    readable,      \* unread data sits in the socket's receive queue
    alive,         \* the TcpStream has not been dropped
    nonblocking,   \* epoll, kqueue: the stream's socket is in non-blocking mode
    events,        \* the caller's Events buffer (contents, length)
    cap,           \* events.capacity()
    tokenSt,       \* Poll::register's token counter: next is the counter,
                   \* held[t] the token thread t was given (-1: none);
                   \* ghost: log is the tokens in allocation order
    rd,            \* IOCP TcpStream: pos is the stream's cursor, done and k
                   \* the completion of its WSARecv and the bytes it wrote;
                   \* ghosts: the last read call (len, prev, from, n, and
                   \* after: it came after the completion), reads,
                   \* total: the bytes all the read calls returned
    selector,      \* the Selector's kernel handle: open (not yet closed by
                   \* Drop); ghosts: closes counts the close calls made on it,
                   \* stale is set once a syscall was issued on it after Drop
    pollSt,        \* the reactor thread inside Poll::poll
    thr,           \* the application threads
    owed,          \* ghost: <<stream, token>> of register calls that returned
                   \*        Ok and whose event no poll has returned yet
    fired,         \* ghost: an event of the stream was returned since the
                   \*        stream was last registered
    registered,    \* ghost: tokens given to register calls that returned Ok
    closeOks,      \* ghost: number of close_loop calls that returned Ok
    closeErrs,     \* ghost: number of close_loop calls that returned an OS error
    wakePosts      \* ghost: number of wake events posted to the queue

vars == <<platform, timespec, evl, tokenSt, rd, selector, is_poll_dead, regs, wake, assoc, operations, port, readable,
          alive, nonblocking, events, cap, pollSt, thr, owed, fired, registered,
          closeOks, closeErrs, wakePosts>>

kernelVars == <<regs, wake, assoc, operations, port, readable, alive, nonblocking>>
regGhosts == <<owed, fired, registered>>
closeGhosts == <<closeOks, closeErrs, wakePosts>>

\* TcpStream::connect: stream.set_nonblocking(true)
connect_nonblocking == TRUE
\* A read that puts the socket back into the mode it found it in.
read_nonblocking_restore(mode) == mode
\* TcpStream::read: self.inner.set_nonblocking(false) before the read, and
\* nothing after it.
read_nonblocking(mode) == FALSE

NoReg == [st |-> "none", udata |-> 0, oneshot |-> FALSE]
IdleThread == [pc |-> "idle", op |-> "none", stream |-> 0, token |-> 0,
               interests |-> {}, late |-> FALSE, rearm |-> FALSE, result |-> "none"]
NoTokens == [next |-> 0, log |-> <<>>, held |-> [t \in Threads |-> -1]]
NoRead == [done |-> FALSE, k |-> 0, pos |-> 0, reads |-> 0, after |-> FALSE,
           len |-> 0, prev |-> 0, from |-> 0, n |-> 0, total |-> 0]
NoTimespec == [called |-> FALSE, arg |-> None, null |-> TRUE, tv_sec |-> 0,
               v_nsec |-> 0, overflow |-> FALSE]
\* EventLoop::new: has_error is 0, errors is empty, the background thread is
\* at its send; no check_errors call is under way.
NewEventLoop == [has_error |-> 0, errors |-> 0, mutex |-> "free", bg |-> "send",
                 chk |-> "idle", result |-> "none", n |-> 0]
IdlePoll == [pc |-> "idle", arg |-> None, timeout |-> None, late |-> FALSE,
             retried |-> FALSE, result |-> "none", n |-> 0, blockedAtClose |-> FALSE]

Init ==
    /\ platform \in Platforms
    /\ timespec = NoTimespec
    /\ evl = NewEventLoop
    /\ is_poll_dead = FALSE
    /\ regs = [s \in AllStreams |-> NoReg]
    /\ wake = "none"
    /\ assoc = [s \in AllStreams |-> FALSE]
    /\ operations = [s \in AllStreams |-> <<>>]
    /\ port = <<>>
    /\ readable = [s \in AllStreams |-> FALSE]
    /\ alive = [s \in AllStreams |-> TRUE]
    /\ nonblocking = [s \in AllStreams |-> connect_nonblocking]
    /\ events = <<>>
    /\ cap = 1
    /\ selector = [open |-> TRUE, closes |-> 0, stale |-> FALSE]
    /\ tokenSt = NoTokens
    /\ rd = NoRead
    /\ pollSt = IdlePoll
    /\ thr = [t \in Threads |-> IdleThread]
    /\ owed = {}
    /\ fired = [s \in AllStreams |-> FALSE]
    /\ registered = {}
    /\ closeOks = 0
    /\ closeErrs = 0
    /\ wakePosts = 0

(* ---- helpers ---- *)
Min(a, b) == IF a < b THEN a ELSE b

RECURSIVE SetToSeq(_)
SetToSeq(S) ==
    IF S = {} THEN <<>>
    ELSE LET m == CHOOSE x \in S : \A y \in S : x <= y
         IN <<m>> \o SetToSeq(S \ {m})

\* Threads between the poll_dead check of register and its syscalls.
Registering(s) == {t \in Threads : thr[t].pc = "reg" /\ thr[t].stream = s}

\* The thread's call returns r to its caller.
Finish(t, r) ==
    thr' = [thr EXCEPT ![t] = [IdleThread EXCEPT !.pc = "ret", !.op = thr[t].op,
                                                 !.stream = thr[t].stream,
                                                 !.interests = thr[t].interests,
                                                 !.late = thr[t].late,
                                                 !.rearm = thr[t].rearm,
                                                 !.result = r]]

\* The caller has the result and the thread is free for its next call.
Return(t) ==
    /\ thr[t].pc = "ret"
    /\ thr' = [thr EXCEPT ![t] = IdleThread]
    /\ UNCHANGED <<platform, timespec, evl, tokenSt, rd, selector, is_poll_dead, kernelVars, events, cap, pollSt,
                   regGhosts, closeGhosts>>

\* Ghosts of a register call on s with token tok whose syscalls went through
\* and which returns r.
Registered(s, tok, r) ==
    /\ fired' = [fired EXCEPT ![s] = FALSE]
    /\ owed' = IF r = "Ok" THEN owed \cup {<<s, tok>>} ELSE owed
    /\ registered' = IF r = "Ok" THEN registered \cup {tok} ELSE registered

\* Ghosts of a select that returns the events evs.
Delivered(evs) ==
    LET got == {evs[i] : i \in 1..Len(evs)}
    IN  /\ fired' = [s \in AllStreams |-> fired[s] \/ \E e \in got : e.stream = s]
        /\ owed' = owed \ {<<e.stream, e.token>> : e \in got}
        /\ UNCHANGED registered

(* ---- Registrator::register ---- *)

\* if self.is_poll_dead.load(Ordering::SeqCst) { return Err(Interrupted) }
RegisterRejects(dead) == dead

\* The borrow of the stream: register(&mut TcpStream) on IOCP is exclusive,
\* register(&TcpStream) on the readiness platforms is shared.
BorrowAllows(s) == platform = "iocp" => Registering(s) = {}

\* register up to and including the load of poll_dead.
RegisterCall(t, s, tok, i) ==
    /\ thr[t].pc = "idle"
    /\ alive[s]
    /\ BorrowAllows(s)
    /\ thr' = [thr EXCEPT ![t] =
                IF RegisterRejects(is_poll_dead)
                THEN [IdleThread EXCEPT !.pc = "ret", !.op = "register", !.stream = s,
                                        !.interests = i,
                                        !.late = closeOks > 0, !.rearm = fired[s],
                                        !.result = "Interrupted"]
                ELSE [pc |-> "reg", op |-> "register", stream |-> s, token |-> tok,
                      interests |-> i, late |-> closeOks > 0, rearm |-> fired[s],
                      result |-> "none"]]
    /\ UNCHANGED <<platform, timespec, evl, tokenSt, rd, selector, is_poll_dead, kernelVars, events, cap, pollSt,
                   regGhosts, closeGhosts>>

\* Sources of the readiness queue that have an event to report: an armed
\* registration whose socket has unread data, and the wake source.
ReadySources ==
    {s \in AllStreams : regs[s].st = "armed" /\ readable[s]}
        \cup (IF wake = "ready" THEN {WakeSrc} ELSE {})

\* A kevent call that hands every ready event to its caller.
kevent_takes_all(ready, n_events) == ready
\* The ready sources a kevent call takes off the queue for its eventlist: at
\* most n_events of them, and register and close_loop pass an empty
\* eventlist with n_events = 0 (macos.rs:38, 62).
kevent_takes(ready, n_events) == IF n_events = 0 THEN {} ELSE ready

\* epoll_ctl(EPOLL_CTL_ADD) fails with EEXIST for a descriptor that is already
\* in the interest list, armed or disabled by EPOLLONESHOT.
epoll_ctl_add_ok(s) == regs[s].st = "none"

\* The result of register after its syscalls went through.
RegisterTail(i) == IF is_writable(i) THEN "Panic" ELSE "Ok"

\* linux.rs: the rest of register, after the check.
RegisterEpoll(t, out) ==
    LET a == thr[t]
        s == a.stream
    IN  /\ platform = "epoll"
        /\ selector.open \/ ~is_readable(a.interests)
        /\ a.pc = "reg"
        /\ IF is_readable(a.interests)
           THEN IF out = "ok" /\ epoll_ctl_add_ok(s)
                THEN /\ regs' = [regs EXCEPT ![s] =
                            [st |-> "armed", udata |-> a.token,
                             oneshot |-> "EPOLLONESHOT" \in RegisterEpollFlags]]
                     /\ Registered(s, a.token, RegisterTail(a.interests))
                     /\ Finish(t, RegisterTail(a.interests))
                ELSE /\ UNCHANGED <<regs, regGhosts>>
                     /\ Finish(t, IF out = "ok" THEN "EEXIST" ELSE "OsError")
           ELSE /\ out = "ok"
                /\ UNCHANGED <<regs, regGhosts>>
                /\ Finish(t, RegisterTail(a.interests))
        /\ UNCHANGED <<platform, timespec, evl, tokenSt, rd, selector, is_poll_dead, wake, assoc, operations, port, readable,
                       alive, nonblocking, events, cap, pollSt, closeGhosts>>

\* macos.rs: the rest of register, after the check.  kevent with EV_ADD on an
\* existing (ident, filter) modifies that knote: its udata is overwritten.
RegisterKqueue(t, out) ==
    LET a == thr[t]
        s == a.stream
        taken == kevent_takes(ReadySources, 0)
    IN  /\ platform = "kqueue"
        /\ selector.open \/ ~is_readable(a.interests)
        /\ a.pc = "reg"
        /\ IF is_readable(a.interests)
           THEN IF out = "ok"
                THEN /\ regs' = [x \in AllStreams |->
                            IF x = s
                            THEN [st |-> "armed", udata |-> a.token,
                                  oneshot |-> "EV_ONESHOT" \in new_read_event_flags]
                            ELSE IF x \in taken /\ regs[x].oneshot THEN NoReg
                            ELSE regs[x]]
                     /\ wake' = IF WakeSrc \in taken THEN "idle" ELSE wake
                     /\ Registered(s, a.token, RegisterTail(a.interests))
                     /\ Finish(t, RegisterTail(a.interests))
                ELSE /\ UNCHANGED <<regs, wake, regGhosts>>
                     /\ Finish(t, "OsError")
           ELSE /\ out = "ok"
                /\ UNCHANGED <<regs, wake, regGhosts>>
                /\ Finish(t, RegisterTail(a.interests))
        /\ UNCHANGED <<platform, timespec, evl, tokenSt, rd, selector, is_poll_dead, assoc, operations, port, readable,
                       alive, nonblocking, events, cap, pollSt, closeGhosts>>

\* ffi::Operation::new(token): a record of the stream's LinkedList.
Operation(tok, state) == [token |-> tok, st |-> state, freed |-> FALSE]

\* A completion packet of the port: lp_overlapped is the address of
\* operations[s][idx], or of close_loop's local WSAOVERLAPPED for the wake.
Packet(k, s, idx) == [kind |-> k, stream |-> s, idx |-> idx]

\* An association that is accepted again for a socket the port already has.
create_io_completion_port_again(s) == TRUE
\* CreateIoCompletionPort(socket, port, ..) fails with ERROR_INVALID_PARAMETER
\* for a socket that is already associated with a port.
create_io_completion_port_ok(s) == ~assoc[s]

\* WSARecv on the socket with the Operation as its OVERLAPPED: it returns 0
\* when data was there and the receive completed at once (the completion
\* packet is posted to the port all the same), SOCKET_ERROR with
\* WSA_IO_PENDING when the receive was started and completes later, and
\* SOCKET_ERROR with another code (here WSAECONNRESET) when it was refused.
\* st is what became of the Operation in the kernel.
WSARecv(ready, fault) ==
    IF fault THEN [res |-> -1, err |-> 10054, st |-> "failed"]
    ELSE IF ready THEN [res |-> 0, err |-> 0, st |-> "queued"]
    ELSE [res |-> -1, err |-> WSA_IO_PENDING, st |-> "pending"]

\* A wrapper that takes every non-zero return of WSARecv for a failure.
wsa_recv_strict(res, err) == IF res # 0 THEN "OsError" ELSE "Ok"
\* ffi::wsa_recv: the result it makes of WSARecv's return value.
wsa_recv(res, err) ==
    IF res # 0
    THEN IF err = WSA_IO_PENDING THEN "Ok" ELSE "OsError"
    ELSE "Ok"

\* windows.rs:126-136: the result of register after its syscalls went through.
RegisterTailIocp(i) == IF is_readable(i) THEN "Ok" ELSE "Panic"

\* windows.rs: the rest of register, after the check.
RegisterIocp(t, out) ==
    LET a == thr[t]
        s == a.stream
        idx == Len(operations[s]) + 1
    IN  /\ platform = "iocp"
        /\ selector.open
        /\ a.pc = "reg"
        /\ IF out = "fail_assoc" \/ ~create_io_completion_port_ok(s)
           THEN /\ UNCHANGED <<assoc, operations, port, readable, regGhosts>>
                /\ Finish(t, IF out = "fail_assoc" THEN "OsError"
                             ELSE "ERROR_INVALID_PARAMETER")
           ELSE /\ assoc' = [assoc EXCEPT ![s] = TRUE]
                /\ IF is_readable(a.interests)
                   THEN LET k == WSARecv(readable[s], out = "fail_recv")
                            r == wsa_recv(k.res, k.err)
                        IN  /\ operations' = [operations EXCEPT ![s] =
                                    Append(@, Operation(a.token, k.st))]
                            /\ port' = IF k.st = "queued"
                                       THEN Append(port, Packet("op", s, idx))
                                       ELSE port
                            /\ readable' = IF k.st = "queued"
                                           THEN [readable EXCEPT ![s] = FALSE]
                                           ELSE readable
                            /\ IF r = "Ok" THEN Registered(s, a.token, "Ok")
                               ELSE UNCHANGED regGhosts
                            /\ Finish(t, r)
                   ELSE /\ out = "ok"
                        /\ operations' = [operations EXCEPT ![s] =
                                Append(@, Operation(a.token, "unused"))]
                        /\ UNCHANGED <<port, readable, regGhosts>>
                        /\ Finish(t, "Panic")
        /\ UNCHANGED <<platform, timespec, evl, tokenSt, rd, selector, is_poll_dead, regs, wake, alive, nonblocking, events, cap, pollSt,
                       closeGhosts>>

(* ---- Registrator::close_loop ---- *)

\* A load that is not followed by the store.
compare_and_swap_load(val, current, new) == [prev |-> val, next |-> val]
\* A swap that flips the flag whatever it was.
compare_and_swap_toggle(val, current, new) == [prev |-> val, next |-> ~val]
\* A store that does not look at the previous value.
compare_and_swap_store(val, current, new) == [prev |-> current, next |-> new]

\* AtomicBool::compare_and_swap(current, new): one atomic step that returns
\* the previous value and stores new when the previous value was current.
compare_and_swap(val, current, new) ==
    [prev |-> val, next |-> IF val = current THEN new ELSE val]

\* The reactor is inside select with no timeout.
PollBlocked == pollSt.pc = "select" /\ ~pollSt.timeout.some

\* close_loop up to and including the compare_and_swap.
CloseCall(t) ==
    LET cas == compare_and_swap(is_poll_dead, FALSE, TRUE)
    IN  /\ thr[t].pc = "idle"
        /\ is_poll_dead' = cas.next
        /\ IF cas.prev
           THEN /\ thr' = [thr EXCEPT ![t] = [IdleThread EXCEPT !.pc = "ret",
                                                              !.op = "close_loop",
                                                              !.late = closeOks > 0,
                                                              !.result = "Interrupted"]]
                /\ UNCHANGED pollSt
           ELSE /\ thr' = [thr EXCEPT ![t] = [IdleThread EXCEPT !.pc = "close",
                                                              !.op = "close_loop",
                                                              !.late = closeOks > 0]]
                /\ pollSt' = [pollSt EXCEPT !.blockedAtClose = PollBlocked]
        /\ UNCHANGED <<platform, timespec, evl, tokenSt, rd, selector, kernelVars, events, cap, regGhosts, closeGhosts>>

\* A wake step that empties the interest list.
close_loop_regs_cancel(r) == [s \in DOMAIN r |-> NoReg]
\* The registrations after the wake step of close_loop.  The step names its
\* own source only (a new eventfd, the timer with ident 0, a packet with
\* completion key 0) and no stream: the registrations stay as they are.
close_loop_regs(r) == r

\* A close_loop that takes the flag back when its wake step failed.
wake_failed_flag_reset(dead) == FALSE
\* poll_dead after the wake step failed: the ? operator returns the error at
\* once and nothing stores to the flag again.
wake_failed_flag(dead) == dead

\* The wake step of close_loop: eventfd + EPOLL_CTL_ADD (linux.rs:55-57),
\* kevent with the timer event (macos.rs:60-62), PostQueuedCompletionStatus
\* (windows.rs:149-150).
CloseWake(t, out) ==
    /\ thr[t].pc = "close"
    /\ selector.open
    /\ regs' = close_loop_regs(regs)
    /\ IF out = "ok"
       THEN /\ wake' = IF platform = "iocp" THEN wake ELSE "ready"
            /\ port' = IF platform = "iocp" THEN Append(port, Packet("wake", 0, 0))
                       ELSE port
            /\ wakePosts' = wakePosts + 1
            /\ closeOks' = closeOks + 1
            /\ UNCHANGED closeErrs
            /\ Finish(t, "Ok")
       ELSE /\ closeErrs' = closeErrs + 1
            /\ UNCHANGED <<wake, port, wakePosts, closeOks>>
            /\ Finish(t, "OsError")
    /\ is_poll_dead' = IF out = "ok" THEN is_poll_dead ELSE wake_failed_flag(is_poll_dead)
    /\ UNCHANGED <<platform, timespec, evl, tokenSt, rd, selector, assoc, operations, readable, alive, nonblocking,
                   events, cap, pollSt, regGhosts>>

(* ---- Selector::select ---- *)

\* An entry of the Events buffer.  token is the udata / epoll_data of the
\* event; an IOCP entry holds lp_overlapped (stream, idx) instead, and token
\* is then the token its Operation was made with.
Event(k, s, idx, tok) ==
    [kind |-> k, stream |-> s, idx |-> idx, token |-> tok]

\* The kernel reports at most max of the ready sources.
Batches(ready, max) ==
    {b \in SUBSET ready : Cardinality(b) = Min(max, Cardinality(ready))}

ReadinessEvent(src) ==
    IF src = WakeSrc THEN Event("wake", 0, 0, WakeToken)
    ELSE Event("read", src, 0, regs[src].udata)

BatchEvents(b) ==
    LET order == SetToSeq(b)
    IN  [i \in 1..Len(order) |-> ReadinessEvent(order[i])]

\* linux.rs:79  timeout_ms.unwrap_or(-1); a negative value waits indefinitely.
epoll_timeout(t) == IF t.some THEN t.ms ELSE -1
\* linux.rs:80  the maxevents argument of epoll_wait
epoll_maxevents(capacity) == EPOLL_MAXEVENTS
\* macos.rs:81  let n_events = events.capacity() as i32
kevent_nevents(capacity) == capacity
\* windows.rs:191  let ul_count = events.capacity() as u32
iocp_ul_count(capacity) == capacity

\* macos.rs:299-304  None becomes a null timespec pointer: wait indefinitely.
kevent_waits_forever(t) == ~t.some
\* A wait on the port that gives up at once whatever the timeout is.
iocp_waits_forever_never(t) == FALSE
\* windows.rs:187, 533  t as u32, and None becomes INFINITE = 0xFFFFFFFF,
\* which is also what -1 casts to.
iocp_waits_forever(t) == ~t.some \/ t.ms = -1

\* A clear that leaves the entries of the previous call in the buffer.
events_clear_keep(evs) == evs
\* events.clear(), the first statement of select on every platform.
events_clear(evs) == <<>>

\* A buffer that is shrunk to fit the entries it was given.
set_len_capacity_fit(capacity, n) == n
\* The capacity of the buffer after events.clear() and events.set_len(n):
\* both change the length only and neither reallocates.
set_len_capacity(capacity, n) == capacity

\* linux.rs:77-86: epoll_wait returned n_events >= 0, then set_len(n_events).
SelectEpoll(b) ==
    /\ platform = "epoll"
    /\ pollSt.pc = "select"
    /\ b \in Batches(ReadySources, epoll_maxevents(cap))
    /\ b = {} => epoll_timeout(pollSt.timeout) >= 0
    /\ events' = BatchEvents(b)
    /\ regs' = [s \in AllStreams |->
                    IF s \in b /\ regs[s].oneshot
                    THEN [regs[s] EXCEPT !.st = "disabled"] ELSE regs[s]]
    /\ cap' = set_len_capacity(cap, Cardinality(b))
    /\ Delivered(BatchEvents(b))
    /\ pollSt' = [pollSt EXCEPT !.pc = "check", !.retried = FALSE, !.arg = None]
    /\ UNCHANGED <<platform, timespec, evl, tokenSt, rd, selector, is_poll_dead, wake, assoc, operations, port, readable,
                   alive, nonblocking, thr, closeGhosts>>

\* macos.rs:79-89: kevent returned n_events >= 0, then set_len(n_events).
\* An EV_ONESHOT knote is deleted when its event is reported; the EV_CLEAR
\* timer's state is reset.
SelectKqueue(b) ==
    /\ platform = "kqueue"
    /\ pollSt.pc = "select"
    /\ b \in Batches(ReadySources, kevent_nevents(cap))
    /\ b = {} => ~kevent_waits_forever(pollSt.timeout)
    /\ events' = BatchEvents(b)
    /\ regs' = [s \in AllStreams |->
                    IF s \in b /\ regs[s].oneshot THEN NoReg ELSE regs[s]]
    /\ wake' = IF WakeSrc \in b THEN "idle" ELSE wake
    /\ cap' = set_len_capacity(cap, Cardinality(b))
    /\ Delivered(BatchEvents(b))
    /\ pollSt' = [pollSt EXCEPT !.pc = "check", !.retried = FALSE, !.arg = None]
    /\ UNCHANGED <<platform, timespec, evl, tokenSt, rd, selector, is_poll_dead, assoc, operations, port, readable,
                   alive, nonblocking, thr, closeGhosts>>

PacketEvent(p) ==
    Event(p.kind, p.stream, p.idx,
          IF p.kind = "op" THEN operations[p.stream][p.idx].token ELSE WakeToken)

\* windows.rs:178-216: GetQueuedCompletionStatusEx removed the first entries
\* of the port (at most ul_count), or timed out with error 258, which select
\* turns into zero entries; then set_len(removed).
SelectIocp ==
    LET n == Min(iocp_ul_count(cap), Len(port))
        taken == SubSeq(port, 1, n)
        ops == {<<taken[i].stream, taken[i].idx>> :
                    i \in {j \in 1..n : taken[j].kind = "op"}}
    IN  /\ platform = "iocp"
        /\ pollSt.pc = "select"
        /\ n = 0 => ~iocp_waits_forever(pollSt.timeout)
        /\ events' = [i \in 1..n |-> PacketEvent(taken[i])]
        /\ port' = SubSeq(port, n + 1, Len(port))
        /\ operations' = [s \in AllStreams |->
                [i \in 1..Len(operations[s]) |->
                    IF <<s, i>> \in ops
                    THEN [operations[s][i] EXCEPT !.st = "done"]
                    ELSE operations[s][i]]]
        /\ cap' = set_len_capacity(cap, n)
        /\ Delivered([i \in 1..n |-> PacketEvent(taken[i])])
        /\ pollSt' = [pollSt EXCEPT !.pc = "check", !.retried = FALSE, !.arg = None]
        /\ UNCHANGED <<platform, timespec, evl, tokenSt, rd, selector, is_poll_dead, regs, wake, assoc, readable, alive, nonblocking,
                       thr, closeGhosts>>

\* A poll that hands every error of select to its caller.
PollOnSelectError_return(kind) == "return"
\* Poll::poll on an error of select: "interrupted" is retried, any other
\* error is returned.
PollOnSelectError(kind) == IF kind = "EINTR" THEN "retry" ELSE "return"

\* The syscall of select failed: select returns the error with the buffer
\* cleared.  Poll::poll calls select again on Interrupted (EINTR) and returns
\* any other error unchanged.
SelectFails(kind) ==
    /\ pollSt.pc = "select"
    /\ events' = events_clear(events)
    /\ cap' = set_len_capacity(cap, 0)
    /\ pollSt' = IF PollOnSelectError(kind) = "retry"
                 THEN [pollSt EXCEPT !.retried = TRUE]
                 ELSE [pollSt EXCEPT !.pc = "ret", !.retried = FALSE, !.arg = None,
                                     !.result = IF kind = "EINTR" THEN "EINTR"
                                                ELSE "OsError"]
    /\ UNCHANGED <<platform, timespec, evl, tokenSt, rd, selector, is_poll_dead, kernelVars, thr, regGhosts, closeGhosts>>

(* ---- Poll::poll ---- *)

\* poll up to the blocking syscall of the first select: the timeout is
\* clamped, select clears the buffer.
PollCall(t, c) ==
    /\ pollSt.pc = "idle"
    /\ selector.open
    /\ pollSt' = [IdlePoll EXCEPT !.pc = "select", !.arg = t,
                                  !.timeout = ClampTimeout(t),
                                  !.late = closeOks > 0]
    /\ events' = events_clear(events)
    /\ cap' = c
    /\ UNCHANGED <<platform, timespec, evl, tokenSt, rd, selector, is_poll_dead, kernelVars, thr, regGhosts, closeGhosts>>

\* A poll that does not look at poll_dead after select.
PollResult_ok(dead) == "Ok"
\* After a successful select: "Poll closed." when poll_dead is set, else
\* Ok(events.len()).
PollResult(dead) == IF dead THEN "Interrupted" ELSE "Ok"

PollCheck ==
    /\ pollSt.pc = "check"
    /\ pollSt' = [pollSt EXCEPT !.pc = "ret", !.result = PollResult(is_poll_dead),
                                !.n = IF PollResult(is_poll_dead) = "Ok"
                                      THEN Len(events) ELSE 0]
    /\ UNCHANGED <<platform, timespec, evl, tokenSt, rd, selector, is_poll_dead, kernelVars, events, cap, thr, regGhosts, closeGhosts>>

\* The reactor has the result of poll and goes round its loop.
PollReturn ==
    /\ pollSt.pc = "ret"
    /\ pollSt' = IdlePoll
    /\ UNCHANGED <<platform, timespec, evl, tokenSt, rd, selector, is_poll_dead, kernelVars, events, cap, thr, regGhosts, closeGhosts>>

(* ---- Poll::register: token allocation ---- *)

\* An addition whose store is lost.
fetch_add_lost(val, n) == [prev |-> val, next |-> val]
\* AtomicUsize::fetch_add(n): one atomic step that returns the previous value
\* and stores the sum (the sum wraps at usize::MAX, which no run of MaxAlloc
\* allocations reaches).
fetch_add(val, n) == [prev |-> val, next |-> val + n]

\* Poll::register takes its token from the shared counter.
AllocToken(t) ==
    LET fa == fetch_add(tokenSt.next, 1)
    IN  /\ tokenSt.held[t] = -1
        /\ tokenSt.next < MaxAlloc
        /\ tokenSt' = [next |-> fa.next,
                       log |-> Append(tokenSt.log, fa.prev),
                       held |-> [tokenSt.held EXCEPT ![t] = fa.prev]]
        /\ UNCHANGED <<platform, timespec, evl, rd, selector, is_poll_dead, kernelVars, events, cap,
                       pollSt, thr, regGhosts, closeGhosts>>

\* Poll::register hands the token to its caller.
AllocReturn(t) ==
    /\ tokenSt.held[t] # -1
    /\ tokenSt' = [tokenSt EXCEPT !.held[t] = -1]
    /\ UNCHANGED <<platform, timespec, evl, rd, selector, is_poll_dead, kernelVars, events, cap,
                   pollSt, thr, regGhosts, closeGhosts>>

(* ---- IOCP: impl Read for TcpStream ---- *)

Max(a, b) == IF a > b THEN a ELSE b

\* windows.rs:64-84.  buffer_len is self.buffer.len(), pos is self.pos, len
\* is buff.len().  n is the number of bytes copied and returned, from the
\* index in self.buffer of the first byte copied, pos the cursor afterwards.
TcpStreamRead(buffer_len, pos, len) ==
    IF buffer_len - 0 <= len
    THEN \* self.buffer.iter().skip(self.pos).zip(buff); pos is left alone
         [n |-> Min(Max(buffer_len - pos, 0), len), from |-> pos, pos |-> pos]
    ELSE \* buff.iter_mut().zip(&self.buffer); self.pos += bytes_read
         [n |-> Min(len, buffer_len), from |-> 0, pos |-> pos + Min(len, buffer_len)]

\* Bytes a completed WSARecv wrote into the buffer, and lengths of the
\* caller's buffers.
RecvSizes == {0, 1, 3, BUFFER_LEN}
ReadSizes == {1, 2, BUFFER_LEN, 2 * BUFFER_LEN}

\* The stream's WSARecv completes with k bytes written at the start of the
\* buffer.
RecvCompletes(k) ==
    /\ platform = "iocp"
    /\ ~rd.done
    /\ rd' = [rd EXCEPT !.done = TRUE, !.k = k]
    /\ UNCHANGED <<platform, timespec, evl, tokenSt, selector, is_poll_dead, kernelVars, events, cap,
                   pollSt, thr, regGhosts, closeGhosts>>

\* stream.read(buff) with buff.len() = len.
StreamRead(len) ==
    LET r == TcpStreamRead(BUFFER_LEN, rd.pos, len)
    IN  /\ platform = "iocp"
        /\ rd.reads < MaxReads
        /\ rd' = [rd EXCEPT !.pos = r.pos, !.reads = @ + 1, !.after = rd.done,
                            !.len = len, !.prev = rd.pos, !.from = r.from,
                            !.n = r.n, !.total = @ + r.n]
        /\ UNCHANGED <<platform, timespec, evl, tokenSt, selector, is_poll_dead, kernelVars, events,
                       cap, pollSt, thr, regGhosts, closeGhosts>>

(* ---- kqueue: ffi::Timespec::from_millis and the kevent wrapper ---- *)

\* The values of an i32.
I32_MAX == 2147483647
I32_MIN == -I32_MAX - 1
\* Rust's / and % on i32: the quotient is truncated toward zero and the
\* remainder has the sign of the dividend.
TruncDiv(a, b) == IF a >= 0 THEN a \div b ELSE -((-a) \div b)
TruncRem(a, b) == a - b * TruncDiv(a, b)

\* A conversion that scales the remainder to microseconds.
from_millis_micros(milliseconds) ==
    [tv_sec |-> TruncDiv(milliseconds, 1000),
     v_nsec |-> TruncRem(milliseconds, 1000) * 1000,
     overflow |-> FALSE]
\* macos.rs:192-201.  seconds = milliseconds / 1000 and nanoseconds =
\* (milliseconds % 1000) * 1000 * 1000, both i32; overflow tells whether a
\* product left the range of i32.  v_nsec is the i32 that is cast to usize
\* (a negative one becomes a value near 2^64).
from_millis(milliseconds) ==
    LET seconds == TruncDiv(milliseconds, 1000)
        p1 == TruncRem(milliseconds, 1000) * 1000
        nanoseconds == p1 * 1000
    IN  [tv_sec |-> seconds,
         v_nsec |-> nanoseconds,
         overflow |-> \/ p1 > I32_MAX \/ p1 < I32_MIN
                      \/ nanoseconds > I32_MAX \/ nanoseconds < I32_MIN]

\* The timeouts the wrapper is called with: None, every value up to
\* MaxMillis, and values around the seconds and at the end of the range.
MillisInputs ==
    (-2..MaxMillis) \cup {999, 1000, 1001, 1999, 2000, 59999, 60000, 2147482999,
                           2147483000, I32_MAX - 1, I32_MAX}
KeventTimeouts == {None} \cup {Some(ms) : ms \in MillisInputs}

\* macos.rs:299-304: timeout_ms.map(Timespec::from_millis), and the pointer
\* handed to kevent is null for None.
KeventTimeout(t) ==
    /\ platform = "kqueue"
    /\ timespec' = IF t.some
                   THEN [called |-> TRUE, arg |-> t, null |-> FALSE,
                         tv_sec |-> from_millis(t.ms).tv_sec,
                         v_nsec |-> from_millis(t.ms).v_nsec,
                         overflow |-> from_millis(t.ms).overflow]
                   ELSE [NoTimespec EXCEPT !.called = TRUE]
    /\ UNCHANGED <<platform, evl, tokenSt, rd, selector, is_poll_dead, kernelVars, events,
                   cap, pollSt, thr, regGhosts, closeGhosts>>

(* ---- lib.rs: the legacy EventLoop ---- *)

\* The background thread's send failed: has_error.store(1, Relaxed).
BgStore ==
    /\ evl.bg = "send"
    /\ evl.errors < MaxErrors
    /\ evl' = [evl EXCEPT !.has_error = 1, !.bg = "lock"]
    /\ UNCHANGED <<platform, timespec, tokenSt, rd, selector, is_poll_dead, kernelVars,
                   events, cap, pollSt, thr, regGhosts, closeGhosts>>

\* errors_cloned.lock()
BgLock ==
    /\ evl.bg = "lock"
    /\ evl.mutex = "free"
    /\ evl' = [evl EXCEPT !.mutex = "bg", !.bg = "push"]
    /\ UNCHANGED <<platform, timespec, tokenSt, rd, selector, is_poll_dead, kernelVars,
                   events, cap, pollSt, thr, regGhosts, closeGhosts>>

\* guard.push(..); the guard is dropped at the end of the block and the
\* loop goes round.
BgPush ==
    /\ evl.bg = "push"
    /\ evl' = [evl EXCEPT !.errors = @ + 1, !.mutex = "free", !.bg = "send"]
    /\ UNCHANGED <<platform, timespec, tokenSt, rd, selector, is_poll_dead, kernelVars,
                   events, cap, pollSt, thr, regGhosts, closeGhosts>>

\* check_errors: if self.has_error.load(Relaxed) > 0 { .. } else None
CheckLoad ==
    /\ evl.chk = "idle"
    /\ evl' = IF evl.has_error > 0
              THEN [evl EXCEPT !.chk = "lock"]
              ELSE [evl EXCEPT !.chk = "ret", !.result = "None", !.n = 0]
    /\ UNCHANGED <<platform, timespec, tokenSt, rd, selector, is_poll_dead, kernelVars,
                   events, cap, pollSt, thr, regGhosts, closeGhosts>>

\* self.errors.lock(), the clone of the list, return Some(errors): the
\* guard is dropped on return.
CheckCollect ==
    /\ evl.chk = "lock"
    /\ evl.mutex = "free"
    /\ evl' = [evl EXCEPT !.chk = "ret", !.result = "Some", !.n = evl.errors]
    /\ UNCHANGED <<platform, timespec, tokenSt, rd, selector, is_poll_dead, kernelVars,
                   events, cap, pollSt, thr, regGhosts, closeGhosts>>

\* The caller has the result of check_errors.
CheckReturn ==
    /\ evl.chk = "ret"
    /\ evl' = [evl EXCEPT !.chk = "idle", !.result = "none", !.n = 0]
    /\ UNCHANGED <<platform, timespec, tokenSt, rd, selector, is_poll_dead, kernelVars,
                   events, cap, pollSt, thr, regGhosts, closeGhosts>>

(* ---- Drop for Selector ---- *)

\* A Selector that Drop has never closed and then closes again.
SelectorDroppable_again == pollSt.pc = "idle"
\* The Selector is dropped with its owner: once, and not while poll borrows it.
SelectorDroppable == selector.open /\ pollSt.pc = "idle"

\* linux.rs:96-107, macos.rs:99-110, windows.rs:219-230: Drop closes the
\* handle.  It does not touch poll_dead, and the Registrators keep their
\* copies of the handle's number.  (Closing a valid queue handle does not
\* fail, so the panic branch is not taken.)
DropSelector ==
    /\ SelectorDroppable
    /\ selector' = [selector EXCEPT !.open = FALSE, !.closes = @ + 1]
    /\ UNCHANGED <<platform, timespec, evl, tokenSt, rd, is_poll_dead, kernelVars, events, cap, pollSt, thr,
                   regGhosts, closeGhosts>>

\* The syscall of a register or close_loop call that passed its poll_dead
\* check, issued on the handle's number after Drop closed it: the kernel
\* refuses the closed descriptor, or the number names another object by now
\* and the call goes through on that.  The Poll's own queue gets nothing.
StaleSyscall(t, out) ==
    /\ ~selector.open
    /\ thr[t].pc \in {"reg", "close"}
    /\ thr[t].pc = "reg" => (platform = "iocp" \/ is_readable(thr[t].interests))
    /\ selector' = [selector EXCEPT !.stale = TRUE]
    /\ IF thr[t].pc = "close"
       THEN /\ closeOks' = IF out = "ok" THEN closeOks + 1 ELSE closeOks
            /\ wakePosts' = IF out = "ok" THEN wakePosts + 1 ELSE wakePosts
            /\ closeErrs' = IF out = "ok" THEN closeErrs ELSE closeErrs + 1
       ELSE UNCHANGED closeGhosts
    /\ Finish(t, IF out # "ok" THEN "OsError"
                 ELSE IF thr[t].pc = "close" THEN "Ok"
                 ELSE IF platform = "iocp" THEN RegisterTailIocp(thr[t].interests)
                 ELSE RegisterTail(thr[t].interests))
    /\ UNCHANGED <<platform, timespec, evl, tokenSt, rd, is_poll_dead, kernelVars, events, cap, pollSt,
                   regGhosts>>

(* ---- Event::id ---- *)

\* The values id() may return for an event of the buffer.  On epoll and
\* kqueue the token travels in the event.  On IOCP id() reads the token
\* behind lp_overlapped: an Operation of a live stream, or memory that is no
\* longer (or never was) an Operation, where anything may be read.
IdValues(e) ==
    IF platform # "iocp" THEN {e.token}
    ELSE IF e.kind = "op" /\ ~operations[e.stream][e.idx].freed
         THEN {operations[e.stream][e.idx].token}
         ELSE Tokens \cup {Garbage}

(* ---- the environment: the peer, the application, the kernel ---- *)

\* Data arrives on the stream.  On IOCP it completes the oldest pending
\* WSARecv of the socket, which posts the completion packet to the port.
PendingOps(s) == {i \in 1..Len(operations[s]) : operations[s][i].st = "pending"}

Arrive(s) ==
    /\ alive[s]
    /\ LET pend == PendingOps(s)
       IN  IF platform = "iocp" /\ pend # {}
           THEN LET i == CHOOSE x \in pend : \A y \in pend : x <= y
                IN  /\ operations' = [operations EXCEPT ![s][i].st = "queued"]
                    /\ port' = Append(port, Packet("op", s, i))
                    /\ UNCHANGED readable
           ELSE /\ ~readable[s]
                /\ readable' = [readable EXCEPT ![s] = TRUE]
                /\ UNCHANGED <<operations, port>>
    /\ UNCHANGED <<platform, timespec, evl, tokenSt, rd, selector, is_poll_dead, regs, wake, assoc, alive, nonblocking, events, cap,
                   pollSt, thr, regGhosts, closeGhosts>>

\* TcpStream::read on a readiness platform takes the data out of the socket.
Read(s) ==
    /\ platform # "iocp"
    /\ alive[s]
    /\ Registering(s) = {}
    /\ readable[s]
    /\ readable' = [readable EXCEPT ![s] = FALSE]
    /\ nonblocking' = [nonblocking EXCEPT ![s] = read_nonblocking(@)]
    /\ UNCHANGED <<platform, timespec, evl, tokenSt, rd, selector, is_poll_dead, regs, wake, assoc, operations, port, alive,
                   events, cap, pollSt, thr, regGhosts, closeGhosts>>

\* The TcpStream is dropped: the socket is closed and the stream's buffer and
\* operation list are freed.  The kernel drops a closed descriptor from the
\* interest list / its knotes; on IOCP the pending reads are cancelled and
\* their completion packets are posted.
DropStream(s) ==
    LET pend == SetToSeq(PendingOps(s))
    IN  /\ alive[s]
        /\ Registering(s) = {}
        /\ alive' = [alive EXCEPT ![s] = FALSE]
        /\ UNCHANGED nonblocking
        /\ readable' = [readable EXCEPT ![s] = FALSE]
        /\ regs' = [regs EXCEPT ![s] = NoReg]
        /\ operations' = [operations EXCEPT ![s] =
                [i \in 1..Len(operations[s]) |->
                    [operations[s][i] EXCEPT
                        !.freed = TRUE,
                        !.st = IF @ = "pending" THEN "queued" ELSE @]]]
        /\ port' = port \o [i \in 1..Len(pend) |-> Packet("op", s, pend[i])]
        /\ UNCHANGED <<platform, timespec, evl, tokenSt, rd, selector, is_poll_dead, wake, assoc, events, cap, pollSt, thr,
                       regGhosts, closeGhosts>>

\* The kqueue timer of the wake event was added without EV_ONESHOT: the
\* kernel may fire it again.
TimerRefire ==
    /\ platform = "kqueue"
    /\ wake = "idle"
    /\ wake' = "ready"
    /\ UNCHANGED <<platform, timespec, evl, tokenSt, rd, selector, is_poll_dead, regs, assoc, operations, port, readable,
                   alive, nonblocking, events, cap, pollSt, thr, regGhosts, closeGhosts>>

(* ---- the specification ---- *)

\* A select that returns successfully.
SelectOk ==
    \/ \E b \in SUBSET (Streams \cup {WakeSrc}) : SelectEpoll(b)
    \/ \E b \in SUBSET (Streams \cup {WakeSrc}) : SelectKqueue(b)
    \/ SelectIocp

\* A step of an application thread inside a call it has begun.
ThreadStep(t) ==
    \/ \E out \in {"ok", "fail"} : RegisterEpoll(t, out)
    \/ \E out \in {"ok", "fail"} : RegisterKqueue(t, out)
    \/ \E out \in {"ok", "fail_assoc", "fail_recv"} : RegisterIocp(t, out)
    \/ \E out \in {"ok", "fail"} : CloseWake(t, out)
    \/ \E out \in {"ok", "fail"} : StaleSyscall(t, out)
    \/ Return(t)

\* The steps of the program with the application threads T.
NextOn(T) ==
    \/ \E t \in T, s \in Streams, tok \in Tokens : RegisterCall(t, s, tok, {READABLE})
    \/ \E t \in T : CloseCall(t)
    \/ \E t \in T : ThreadStep(t)
    \/ \E t \in TimeoutArgs, c \in 1..MaxCap : PollCall(t, c)
    \/ SelectOk
    \/ \E kind \in {"EINTR", "EOTHER"} : SelectFails(kind)
    \/ PollCheck
    \/ PollReturn
    \/ DropSelector
    \/ \E s \in Streams : Arrive(s)
    \/ \E s \in Streams : Read(s)
    \/ \E s \in Streams : DropStream(s)
    \/ TimerRefire

Next == NextOn(Threads)

Spec == Init /\ [][Next]_vars

\* Threads that take tokens from Poll::register concurrently.
TokenNext ==
    \/ \E t \in Threads : AllocToken(t)
    \/ \E t \in Threads : AllocReturn(t)

TokenSpec == Init /\ [][TokenNext]_vars

\* An IOCP stream whose read completes and which the application reads.
ReadNext ==
    \/ \E k \in RecvSizes : RecvCompletes(k)
    \/ \E len \in ReadSizes : StreamRead(len)

ReadSpec == Init /\ [][ReadNext]_vars

\* One application thread that registers with every interest set.
RegNext ==
    \/ \E s \in Streams, tok \in Tokens, i \in InterestSets : RegisterCall(1, s, tok, i)
    \/ NextOn({1})

RegSpec == Init /\ [][RegNext]_vars

\* One application thread beside the reactor, which keeps polling; the kernel
\* returns from a select that has something to report, and a thread inside a
\* call finishes it.
\* One thread registers the streams, each with a token of its choice.
SharedTokenNext ==
    \/ \E s \in AllStreams, tok \in Tokens : RegisterCall(1, s, tok, {READABLE})
    \/ \E out \in {"ok", "fail"} : RegisterEpoll(1, out)
    \/ \E out \in {"ok", "fail"} : RegisterKqueue(1, out)
    \/ \E out \in {"ok", "fail_assoc", "fail_recv"} : RegisterIocp(1, out)
    \/ Return(1)
    \/ \E s \in AllStreams : Arrive(s)
    \/ \E s \in AllStreams : Read(s)
    \/ \E s \in AllStreams : DropStream(s)

SharedTokenSpec == Init /\ [][SharedTokenNext]_vars

TimespecNext == \E t \in KeventTimeouts : KeventTimeout(t)

TimespecSpec == Init /\ [][TimespecNext]_vars

EventLoopNext ==
    \/ BgStore
    \/ BgLock
    \/ BgPush
    \/ CheckLoad
    \/ CheckCollect
    \/ CheckReturn

EventLoopSpec == Init /\ [][EventLoopNext]_vars

LiveNext == NextOn({1})

LiveSpec ==
    /\ Init
    /\ [][LiveNext]_vars
    /\ WF_vars(SelectOk)
    /\ WF_vars(PollCheck)
    /\ WF_vars(PollReturn)
    /\ WF_vars(\E t \in TimeoutArgs, c \in 1..MaxCap : PollCall(t, c))
    /\ WF_vars(ThreadStep(1))

(* ---- properties ---- *)

\* C1: once a close_loop call has returned Ok, every later register and
\* close_loop call returns Interrupted, and no later poll call returns Ok or
\* stays inside select forever: a poll that began after the close returns.
\* (An OS error of the select syscall itself is left aside.)
C1_LateCallsInterrupted ==
    /\ [](\A t \in Threads :
            (thr[t].pc = "ret" /\ thr[t].late) => thr[t].result = "Interrupted")
    /\ []((pollSt.pc = "ret" /\ pollSt.late) => pollSt.result # "Ok")
    /\ ((pollSt.late /\ pollSt.pc = "select") ~> (pollSt.pc = "ret"))

\* C2 as stated: the poll that was blocked in select(None) when close_loop
\* won the compare_and_swap returns Interrupted and nothing else.
C2_BlockedPollOnlyInterrupted ==
    (pollSt.blockedAtClose /\ pollSt.pc = "ret") => pollSt.result = "Interrupted"

\* C2 amended: the poll that was blocked in select(None) when a close_loop
\* call that returns Ok won the compare_and_swap eventually returns; what it
\* returns is Interrupted, or the OS error of a failed select syscall, never Ok.
C2_BlockedPollReturns ==
    /\ []((pollSt.blockedAtClose /\ pollSt.pc = "ret")
            => pollSt.result \in {"Interrupted", "OsError"})
    /\ ((pollSt.blockedAtClose /\ closeOks > 0) ~> (pollSt.pc = "ret"))

C2_Witness ==
    /\ pollSt.blockedAtClose
    /\ closeOks = 1
    /\ pollSt.pc = "ret"
    /\ pollSt.result = "Interrupted"

\* close_loop calls that won the compare_and_swap.
CloseWinners ==
    closeOks + closeErrs + Cardinality({t \in Threads : thr[t].pc = "close"})

\* C3 as stated: once close_loop has been called and every call has come
\* back, exactly one of the calls returned Ok.
C3_ExactlyOneOk ==
    (is_poll_dead /\ \A t \in Threads : thr[t].pc # "close") => closeOks = 1

\* C3 amended: however many threads call close_loop, exactly one call wins
\* the compare_and_swap and returns Ok or the OS error of its wake step,
\* every other call returns Interrupted, and at most one wake event is posted.
C3_OneWinner ==
    /\ CloseWinners = (IF is_poll_dead THEN 1 ELSE 0)
    /\ closeOks <= 1
    /\ wakePosts <= 1
    /\ wakePosts = closeOks
    /\ \A t \in Threads :
        (thr[t].pc = "ret" /\ thr[t].op = "close_loop")
            => thr[t].result \in {"Ok", "OsError", "Interrupted"}
    /\ Cardinality({t \in Threads : thr[t].pc = "ret" /\ thr[t].op = "close_loop"
                                    /\ thr[t].result \in {"Ok", "OsError"}}) <= 1

C3_Witness ==
    /\ closeOks = 1
    /\ \E t \in Threads : /\ thr[t].pc = "ret"
                          /\ thr[t].op = "close_loop"
                          /\ thr[t].result = "Interrupted"

\* C4: no register call adds a registration or returns Ok in a step taken
\* when poll_dead is already true.
C4_NoRegisterWhenDead ==
    [][is_poll_dead =>
        /\ owed' \subseteq owed
        /\ \A s \in Streams : regs[s].st = "none" => regs'[s].st = "none"
        /\ \A s \in Streams : Len(operations'[s]) = Len(operations[s])]_vars

\* C5: every event select has placed in the buffer, the wake event included,
\* has an id() equal to a token given to an earlier successful register.
C5_IdsAreRegisteredTokens ==
    \A i \in 1..Len(events) : IdValues(events[i]) \subseteq registered

\* The kernel queue still holds the registration of s with token tok.
HeldArmed(s, tok) ==
    IF platform = "iocp"
    THEN \E i \in 1..Len(operations[s]) :
            /\ operations[s][i].token = tok
            /\ operations[s][i].st \in {"pending", "queued"}
    ELSE regs[s].st = "armed" /\ regs[s].udata = tok

\* C6: a register call that returned Ok gets its event.  Until a poll has
\* returned that event, the kernel queue holds the registration with the
\* call's token; without it no later poll can return the event.
C6_OwedEventDeliverable ==
    \A p \in owed : alive[p[1]] => HeldArmed(p[1], p[2])

\* A select returns an event of stream s in this step.
DeliversNow(s) ==
    /\ pollSt.pc = "select"
    /\ pollSt'.pc = "check"
    /\ \E i \in 1..Len(events') : events'[i].kind # "wake" /\ events'[i].stream = s

\* C7: registrations are one-shot: once a poll has returned the event of a
\* registration, no later poll returns an event of it until the stream is
\* registered again.
C7_OneShot ==
    [][\A s \in Streams : DeliversNow(s) => ~fired[s]]_vars

C7_Witness ==
    \E s \in Streams :
        /\ fired[s]
        /\ alive[s]
        /\ readable[s]
        /\ pollSt.pc = "ret"
        /\ pollSt.result = "Ok"
        /\ Len(events) = 0

\* C8: a register call on a stream whose event was delivered re-arms the
\* registration and returns Ok (or Interrupted once the Poll is closed, or
\* the error of an OS fault): the kernel never refuses it as already present.
C8_RearmReturnsOk ==
    \A t \in Threads :
        (thr[t].pc = "ret" /\ thr[t].op = "register" /\ thr[t].rearm)
            => thr[t].result \in {"Ok", "Interrupted", "OsError"}

\* C9: select never reports more events than events.capacity().
C9_WithinCapacity ==
    Len(events) <= cap

\* C10: no Operation record is freed between its WSARecv being issued and
\* select returning its completion: every completion packet waiting in the
\* port points at a record that is still allocated.
C10_OperationsOutliveCompletions ==
    \A i \in 1..Len(port) :
        port[i].kind = "op" => ~operations[port[i].stream][port[i].idx].freed

C12_HandleOutlivesRegistratorUse ==
    /\ ~selector.open => \A t \in Threads : thr[t].pc \notin {"reg", "close"}
    /\ ~selector.stale

\* C13: the Selector's handle is valid from new until Drop, in particular
\* whenever poll uses it, and Drop closes it exactly once, whether or not
\* close_loop was called and whatever registrations are armed.
C13_HandleClosedOnce ==
    /\ selector.closes = (IF selector.open THEN 0 ELSE 1)
    /\ pollSt.pc # "idle" => selector.open

C13_Witness ==
    /\ ~selector.open
    /\ selector.closes = 1
    /\ is_poll_dead
    /\ \E s \in Streams : alive[s] /\ HeldArmed(s, regs[s].udata) /\ platform = "epoll"

\* C14 as stated, the part about who changes the flag: only a close_loop
\* call that succeeds changes poll_dead, so a close_loop call that returned
\* an OS error has left it false.
C14_FailedCloseLeavesFlag ==
    \A t \in Threads :
        (thr[t].pc = "ret" /\ thr[t].op = "close_loop" /\ thr[t].result = "OsError")
            => ~is_poll_dead

\* C14 amended: poll_dead starts false; the only step that changes it is the
\* compare_and_swap of a close_loop call (whether that call then returns Ok
\* or the OS error of its wake step); it changes from false to true and is
\* never set back to false.
C14_OneWay ==
    /\ ~is_poll_dead
    /\ [][(is_poll_dead' # is_poll_dead) =>
            /\ ~is_poll_dead
            /\ is_poll_dead'
            /\ \E t \in Threads : thr[t].pc = "idle" /\ thr'[t].pc = "close"]_vars

C14_Witness ==
    /\ is_poll_dead
    /\ closeErrs = 1
    /\ \E t \in Threads : /\ thr[t].pc = "ret"
                          /\ thr[t].op = "register"
                          /\ thr[t].result = "Interrupted"

\* C15: poll returns Ok(n) only after a select that succeeded and with
\* poll_dead read as false after it, and then n = events.len(); a select that
\* fails with Interrupted is called again, poll does not return; any other
\* error of select is what poll returns.
C15_PollResults ==
    [][/\ (pollSt.pc # "ret" /\ pollSt'.pc = "ret" /\ pollSt'.result = "Ok") =>
            /\ pollSt.pc = "check"
            /\ ~is_poll_dead
            /\ pollSt'.n = Len(events')
       /\ (pollSt.pc = "select" /\ pollSt'.pc = "ret") => pollSt'.result = "OsError"
       /\ pollSt.pc = "select" => pollSt'.pc \in {"select", "check", "ret"}]_vars

C15_Witness ==
    /\ pollSt.pc = "ret"
    /\ pollSt.result = "Ok"
    /\ pollSt.n = 1
    /\ Len(events) = 1

\* select has nothing to report: no ready source, no wake, an empty port.
NothingReady == ReadySources = {} /\ port = <<>>

C18_TokensIncrease ==
    /\ \A i, j \in 1..Len(tokenSt.log) : i < j => tokenSt.log[i] < tokenSt.log[j]
    /\ \A t, u \in Threads :
        (t # u /\ tokenSt.held[t] # -1) => tokenSt.held[t] # tokenSt.held[u]

C18_Witness ==
    /\ Len(tokenSt.log) = MaxAlloc
    /\ \A t \in Threads : tokenSt.held[t] # -1

\* C20: on IOCP read(buf) returns n = min(len(buf), bytes received and not
\* yet consumed), copies the n bytes that start at the cursor pos, and
\* advances pos by n.
C20_ReadReturnsNextSegment ==
    (rd.reads > 0 /\ rd.after) =>
        /\ rd.n = Min(rd.len, Max(rd.k - rd.prev, 0))
        /\ rd.from = rd.prev
        /\ rd.pos = rd.prev + rd.n

\* C19: a register call whose interest set contains WRITABLE, alone or with
\* READABLE, is rejected on every platform: it never returns Ok.
C19_WritableRejected ==
    \A t \in Threads :
        (thr[t].pc = "ret" /\ thr[t].op = "register" /\ is_writable(thr[t].interests))
            => thr[t].result # "Ok"

\* C21: select empties the buffer before it waits, so while the reactor is
\* inside select the buffer is empty, and whenever select returned an error,
\* an interrupted wait that poll retries or any other error that poll hands
\* to its caller, the buffer has length 0.
C21_ErrorLeavesBufferEmpty ==
    /\ pollSt.pc = "select" => Len(events) = 0
    /\ (pollSt.pc = "ret" /\ pollSt.result \in {"EINTR", "OsError"}) => Len(events) = 0

\* An earlier poll had returned an event of a stream, and a later poll
\* returned the error of its select with the buffer empty.
C21_Witness ==
    /\ \E s \in Streams : fired[s]
    /\ pollSt.pc = "ret"
    /\ pollSt.result = "OsError"
    /\ events = <<>>

\* C22: select changes the length and the contents of the buffer and never
\* its capacity: no step taken while the reactor is inside select changes
\* the capacity, whether select returns entries, none, or an error.
C22_CapacityUnchanged ==
    [][pollSt.pc = "select" => cap' = cap]_vars

\* select returned one entry into a buffer of capacity 2.
C22_Witness ==
    /\ pollSt.pc = "check"
    /\ Len(events) = 1
    /\ cap = 2

\* The completion packets of the port that belong to operation i of stream s.
PacketsOf(s, i) == {j \in 1..Len(port) : port[j] = Packet("op", s, i)}

\* C23: on IOCP register returns Ok both when WSARecv returned 0 (the receive
\* completed at once and its entry is posted all the same) and when it
\* returned non-zero with WSA_IO_PENDING, and returns the error for any other
\* failure of WSARecv.  In both Ok cases exactly one completion entry of the
\* operation is delivered: an operation whose receive completed has exactly
\* one packet in the port until select takes it, an operation that is still
\* pending or that select has delivered has none, and a delivered operation
\* is never queued again.
C23_OneCompletionPerOperation ==
    /\ [](\A s \in Streams : \A i \in 1..Len(operations[s]) :
            Cardinality(PacketsOf(s, i)) =
                IF operations[s][i].st = "queued" THEN 1 ELSE 0)
    /\ [][\A t \in Threads :
            LET s == thr[t].stream
            IN  (/\ platform = "iocp"
                 /\ thr[t].pc = "reg"
                 /\ thr'[t].pc = "ret"
                 /\ selector.open
                 /\ is_readable(thr[t].interests)
                 /\ Len(operations'[s]) = Len(operations[s]) + 1)
                => LET op == operations'[s][Len(operations'[s])]
                   IN  /\ op.st \in {"queued", "pending"} <=> thr'[t].result = "Ok"
                       /\ op.st = "failed" <=> thr'[t].result = "OsError"
                       /\ op.st = "queued" <=> readable[s] /\ thr'[t].result = "Ok"]_vars
    /\ [][\A s \in Streams : \A i \in 1..Len(operations[s]) :
            operations[s][i].st = "done"
            => /\ Len(operations'[s]) >= i
               /\ operations'[s][i].st = "done"]_vars

\* A register call returned Ok and select has delivered the entry of its
\* operation, which has no packet left in the port.
C23_Witness ==
    /\ platform = "iocp"
    /\ \E s \in Streams :
        /\ Len(operations[s]) = 1
        /\ operations[s][1].st = "done"
        /\ <<s, operations[s][1].token>> \notin owed
        /\ operations[s][1].token \in registered
        /\ PacketsOf(s, 1) = {}
        /\ \E i \in 1..Len(events) : events[i] = Event("op", s, 1, operations[s][1].token)

\* C24: on IOCP every completion entry select has returned has an overlapped
\* pointer to an Operation record that is still allocated when id() reads it,
\* the entry of the wake post included: id() never reads memory that was not
\* an Operation or that was already released.
C24_IdReadsLiveOperation ==
    platform = "iocp"
    => \A i \in 1..Len(events) :
            /\ events[i].kind = "op"
            /\ ~operations[events[i].stream][events[i].idx].freed

\* C25: on IOCP read returns only bytes a completed WSARecv wrote into the
\* buffer: before any completion the reads return 0 bytes, and after a
\* completion of k bytes the reads have returned at most k bytes in total.
C25_ReadsOnlyReceivedBytes ==
    /\ ~rd.done => rd.total = 0
    /\ rd.done => rd.total <= rd.k

\* C26: on IOCP, after a completion and with no further register, repeated
\* read calls eventually return Ok(0), for every size of the caller's
\* buffer.  What read returns depends on the cursor pos and on the size of
\* the caller's buffer only, so a read that returned bytes has moved the
\* cursor: one that left it where it was returns the same bytes on every
\* repetition and the loop of read_to_string never sees Ok(0).
C26_ReadMakesProgress ==
    (rd.reads > 0 /\ rd.after /\ rd.n > 0) => rd.pos > rd.prev

\* C27: close_loop changes poll_dead and adds one wake event to the kernel
\* queue, and nothing else: no step of a close_loop call cancels an armed
\* registration or a pending IOCP operation, and every stream's operation
\* list, receive buffer and unread data are left as they were.  A call that
\* returns Ok has added exactly one wake event, any other call none.
C27_CloseLoopFrame ==
    [][\A t \in Threads :
        (thr[t].pc \in {"idle", "close"} /\ thr'[t] # thr[t] /\ thr'[t].op = "close_loop")
        => /\ regs' = regs
           /\ assoc' = assoc
           /\ operations' = operations
           /\ readable' = readable
           /\ alive' = alive
           /\ rd' = rd
           /\ events' = events
           /\ port' = port \/ port' = Append(port, [kind |-> "wake", stream |-> 0, idx |-> 0])
           /\ wake' \in {wake, "ready"}
           /\ wakePosts' = wakePosts + (IF thr'[t].result = "Ok" THEN 1 ELSE 0)]_vars

\* close_loop has returned Ok while a registration made before it is still
\* held by the kernel queue.
C27_Witness ==
    /\ closeOks = 1
    /\ \E t \in Threads : thr[t].pc = "ret" /\ thr[t].op = "close_loop" /\ thr[t].result = "Ok"
    /\ \E p \in owed : HeldArmed(p[1], p[2])

\* C28: no two registrations that are armed at the same time on one Poll
\* carry the same token, whether the tokens were allocated by register or
\* chosen by the caller (register_with_id, Registrator::register): a token
\* identifies one registration.
C28_ArmedTokensDistinct ==
    \A s1 \in AllStreams, s2 \in AllStreams, tok \in Tokens :
        (HeldArmed(s1, tok) /\ HeldArmed(s2, tok)) => s1 = s2

\* C29: a register call whose interest set has neither READABLE nor WRITABLE
\* does not return Ok, on every platform.
C29_EmptyInterestsRejected ==
    \A t \in Threads :
        (thr[t].pc = "ret" /\ thr[t].op = "register" /\ thr[t].interests = {})
            => thr[t].result # "Ok"

\* A read of stream s is the step that takes the unread data out of the
\* socket of a stream that stays alive.
ReadStep(s) == readable[s] /\ ~readable'[s] /\ alive'[s]

\* C30: on epoll and kqueue a TcpStream is non-blocking from connect until
\* its first read; the first read switches it to blocking mode and no
\* operation ever switches it back, so every read after the first runs on a
\* blocking socket.
C30_BlockingAfterFirstRead ==
    /\ \A s \in AllStreams : nonblocking[s]
    /\ [][platform # "iocp" =>
            \A s \in AllStreams :
                /\ ReadStep(s) => ~nonblocking'[s]
                /\ (nonblocking[s] /\ ~ReadStep(s)) => nonblocking'[s]
                /\ ~nonblocking[s] => ~nonblocking'[s]]_vars

\* The stream has been read, is in blocking mode, and is registered and
\* readable again: its next read runs on a blocking socket.
C30_Witness ==
    /\ platform # "iocp"
    /\ \E s \in Streams :
        /\ alive[s]
        /\ ~nonblocking[s]
        /\ fired[s]
        /\ readable[s]

\* C31: register and close_loop only add entries to the kernel queue and
\* never remove ready events from it: no step of a register or close_loop
\* call takes a source out of the ready sources or a packet out of the
\* port, so an event that was ready before the call is still there for a
\* later select.
C31_RegisterCloseKeepReady ==
    [][\A t \in Threads :
        (/\ thr[t].pc \in {"idle", "reg", "close"}
         /\ thr'[t] # thr[t]
         /\ thr'[t].op \in {"register", "close_loop"})
        => /\ ReadySources \subseteq ReadySources'
           /\ Len(port') >= Len(port)
           /\ SubSeq(port', 1, Len(port)) = port]_vars

\* A register call on kqueue has returned Ok while the wake event that
\* another thread's close_loop added before it is still ready.
C31_Witness ==
    /\ platform = "kqueue"
    /\ wake = "ready"
    /\ \E t \in Threads :
        thr[t].pc = "ret" /\ thr[t].op = "register" /\ thr[t].result = "Ok"

\* C32: the wake event is never reported to the application as a normal
\* result: in every interleaving of poll with close_loop, a poll whose select
\* took the wake event returns Interrupted, never Ok(n) with the wake event
\* among the n events, because poll_dead is set before the wake event is
\* posted and poll reads poll_dead after select returned.
C32_WakeNeverReportedOk ==
    /\ (wake # "none" \/ \E i \in 1..Len(port) : port[i].kind = "wake") => is_poll_dead
    /\ (pollSt.pc \in {"check", "ret"} /\ \E i \in 1..Len(events) : events[i].kind = "wake")
            => is_poll_dead
    /\ (pollSt.pc = "ret" /\ pollSt.result = "Ok")
            => \A i \in 1..Len(events) : events[i].kind # "wake"

\* A poll whose select took the wake event together with the event of a
\* stream returns Interrupted.
C32_Witness ==
    /\ pollSt.pc = "ret"
    /\ pollSt.result = "Interrupted"
    /\ \E i \in 1..Len(events) : events[i].kind = "wake"
    /\ \E i \in 1..Len(events) : events[i].kind # "wake"

\* C33: if the wake step of close_loop fails with an OS error, close_loop
\* returns that error and poll_dead stays true: no wake event is in the
\* queue, every retry of close_loop returns Interrupted without posting one,
\* and a poll blocked with no timeout is not woken by close_loop.
C33_FailedWakeLeavesNoWake ==
    closeErrs >= 1
    => /\ is_poll_dead
       /\ closeErrs = 1
       /\ closeOks = 0
       /\ wakePosts = 0
       /\ wake = "none"
       /\ WakeSrc \notin ReadySources
       /\ \A i \in 1..Len(port) : port[i].kind # "wake"
       /\ \A i \in 1..Len(events) : events[i].kind # "wake"
       /\ \A t \in Threads :
            /\ thr[t].pc # "close"
            /\ (thr[t].pc = "ret" /\ thr[t].op = "close_loop")
                => thr[t].result \in {"OsError", "Interrupted"}

\* The wake step failed, a retry of close_loop has returned Interrupted, and
\* the poll that was blocked with no timeout when close_loop was called is
\* still inside select.
C33_Witness ==
    /\ closeErrs = 1
    /\ \E t \in Threads :
        thr[t].pc = "ret" /\ thr[t].op = "close_loop" /\ thr[t].result = "Interrupted"
    /\ pollSt.pc = "select"
    /\ ~pollSt.timeout.some
    /\ pollSt.blockedAtClose

\* C34: a register call that does not return Ok leaves the registration
\* state as it was before the call: it adds no registration to the kernel
\* queue, and on IOCP it adds no Operation record to the stream's list and
\* leaves the socket's port association unchanged.  (The step that takes the
\* call from its poll_dead check to its result is the only one that touches
\* the kernel.)
C34_FailedRegisterLeavesState ==
    [][\A t \in Threads :
        (/\ thr'[t].op = "register"
         /\ thr[t].pc \in {"idle", "reg"}
         /\ thr'[t].pc = "ret"
         /\ thr'[t].result # "Ok")
        => /\ regs' = regs
           /\ operations' = operations
           /\ assoc' = assoc]_vars

\* C35: on IOCP Operation records are reclaimed once their completion has
\* been dequeued: after any sequence of register and select calls on one
\* stream, the number of records in the stream's operation list equals the
\* number of its operations whose completion select has not returned yet.
C35_OperationsReclaimed ==
    platform = "iocp"
    => \A s \in Streams :
        (/\ alive[s]
         /\ \A i \in 1..Len(operations[s]) :
                operations[s][i].st \in {"pending", "queued", "done"})
        => Len(operations[s]) =
            Cardinality({i \in 1..Len(operations[s]) :
                            operations[s][i].st \in {"pending", "queued"}})

\* C36: on kqueue, for every timeout t with 0 <= t <= i32::MAX milliseconds,
\* Timespec::from_millis(t) yields tv_sec = t div 1000 and v_nsec =
\* (t mod 1000) * 1,000,000, with v_nsec < 1,000,000,000 and no i32 overflow
\* in the intermediate product, so tv_sec * 1000 + v_nsec / 1,000,000 = t;
\* a None timeout is passed to kevent as a null pointer.
C36_FromMillis ==
    timespec.called
    => /\ timespec.null <=> ~timespec.arg.some
       /\ (timespec.arg.some /\ timespec.arg.ms >= 0 /\ timespec.arg.ms <= I32_MAX)
            => /\ timespec.tv_sec = timespec.arg.ms \div 1000
               /\ timespec.v_nsec = (timespec.arg.ms % 1000) * 1000000
               /\ timespec.v_nsec >= 0
               /\ timespec.v_nsec < 1000000000
               /\ ~timespec.overflow
               /\ timespec.tv_sec * 1000 + timespec.v_nsec \div 1000000 = timespec.arg.ms

\* The wrapper was called with i32::MAX milliseconds.
C36_Witness ==
    /\ timespec.called
    /\ timespec.arg = Some(I32_MAX)
    /\ timespec.tv_sec = 2147483
    /\ timespec.v_nsec = 647000000

\* C37: in the legacy EventLoop, whenever check_errors observes has_error > 0
\* the error list it returns is non-empty, in every interleaving with the
\* background thread that records a failed send.
C37_ObservedErrorHasMessage ==
    (evl.chk = "ret" /\ evl.result = "Some") => evl.n > 0

====
